---- MODULE Spec2Model ----
(***************************************************************************)
(* State-machine model of the emailnator client (src/src/lib.rs,           *)
(* src/src/header.rs): the session bootstrap Emailnator::new and the three *)
(* operations create_emails, fetch_inbox and read_message.                 *)
(*                                                                         *)
(* Strings are sequences of bytes (0..255).  An Option is a sequence of    *)
(* length at most one: None is <<>>, Some(x) is <<x>>.                     *)
(***************************************************************************)
EXTENDS Integers, Sequences, FiniteSets, TLC

VARIABLES
    phase,       \* "uninitialized" | "connecting" | "ready" | "failed"
    xsrf,        \* Emailnator.xsrf, meaningful once phase = "ready"
    newResult,   \* what Emailnator::new returned: "pending" | "Ok" | an Error kind
    setCookies,  \* the Set-Cookie values of the homepage response, in order
    gets,        \* number of GET requests bootstrap handed to the transport
    pc,          \* per caller: "idle" | "sending" | "reading" | "done" | "cancelled"
    call,        \* per caller: the operation and its arguments
    req,         \* per caller: the POST handed to the transport (an Option)
    resp,        \* per caller: what the transport delivered so far
    result,      \* per caller: what the operation returned (an Option)
    sends        \* per caller: transport invocations of the current invocation

vars == <<phase, xsrf, newResult, setCookies, gets,
          pc, call, req, resp, result, sends>>

bootVars == <<phase, xsrf, newResult, setCookies, gets>>
callVars == <<pc, call, req, resp, result, sends>>

None == <<>>
Some(x) == <<x>>

-----------------------------------------------------------------------------
(* Bounds of the model.                                                    *)

MaxHeaders == 2   \* Set-Cookie headers in a homepage response with several
MaxBody == 2      \* bytes after the cookie name in each of several headers
MaxValue == 5     \* bytes after the cookie name in a single header
MaxCount == 1     \* largest count passed to create_emails

-----------------------------------------------------------------------------
(* src/src/header.rs                                                       *)

\* "XSRF-TOKEN="
XSRF_COOKIE_PREFIX == <<88, 83, 82, 70, 45, 84, 79, 75, 69, 78, 61>>
\* ';'
XSRF_COOKIE_SEPARATOR == 59
X_XSRF_TOKEN == "X-XSRF-TOKEN"
APPLICATION_JSON == "application/json"
CONTENT_TYPE == "content-type"

-----------------------------------------------------------------------------
(* The cookie pipeline of Emailnator::new.                                 *)

\* HeaderValue::to_str: Some only if every byte is visible ASCII or a tab.
ToStr(cookie) ==
    IF \A i \in 1..Len(cookie) :
          (cookie[i] >= 32 /\ cookie[i] < 127) \/ cookie[i] = 9
    THEN Some(cookie) ELSE None

\* str::strip_prefix
StripPrefix(s, prefix) ==
    IF Len(s) >= Len(prefix) /\ SubSeq(s, 1, Len(prefix)) = prefix
    THEN Some(SubSeq(s, Len(prefix) + 1, Len(s))) ELSE None

\* s.split(sep).next(): the part before the first separator, always Some.
SplitNext(s, sep) ==
    IF \E i \in 1..Len(s) : s[i] = sep
    THEN LET first == CHOOSE i \in 1..Len(s) :
                         s[i] = sep /\ \A j \in 1..(i - 1) : s[j] # sep
         IN  Some(SubSeq(s, 1, first - 1))
    ELSE Some(s)

\* A hex digit table whose letters start at 0 instead of 10.
FromHexDigit_LettersFromZero(b) ==
    IF b >= 48 /\ b <= 57 THEN b - 48
    ELSE IF b >= 65 /\ b <= 70 THEN b - 65
    ELSE IF b >= 97 /\ b <= 102 THEN b - 97
    ELSE -1

\* urlencoding: value of a hex digit, -1 when the byte is none.
FromHexDigit(b) ==
    IF b >= 48 /\ b <= 57 THEN b - 48
    ELSE IF b >= 65 /\ b <= 70 THEN b - 55
    ELSE IF b >= 97 /\ b <= 102 THEN b - 87
    ELSE -1

\* urlencoding::decode_binary: every %XY with two hex digits becomes one
\* byte; a '%' that starts no such escape is copied as it stands.
RECURSIVE DecodeBinary(_)
DecodeBinary(data) ==
    IF data = <<>> THEN <<>>
    ELSE IF Head(data) # 37 THEN <<Head(data)>> \o DecodeBinary(Tail(data))
    ELSE LET rest == Tail(data) IN
         IF Len(rest) < 2 THEN <<37>> \o rest
         ELSE IF FromHexDigit(rest[1]) = -1 THEN <<37>> \o DecodeBinary(rest)
         ELSE IF FromHexDigit(rest[2]) = -1
              THEN <<37, rest[1]>> \o DecodeBinary(SubSeq(rest, 2, Len(rest)))
         ELSE <<FromHexDigit(rest[1]) * 16 + FromHexDigit(rest[2])>>
                  \o DecodeBinary(SubSeq(rest, 3, Len(rest)))

IsCont(b) == b >= 128 /\ b <= 191

\* String::from_utf8's validity test.
RECURSIVE IsUtf8(_)
IsUtf8(bs) ==
    IF bs = <<>> THEN TRUE
    ELSE LET b == Head(bs)
             n == Len(bs)
             After(k) == IsUtf8(SubSeq(bs, k + 1, n))
         IN
         IF b < 128 THEN After(1)
         ELSE IF b >= 194 /\ b <= 223
              THEN n >= 2 /\ IsCont(bs[2]) /\ After(2)
         ELSE IF b = 224
              THEN n >= 3 /\ bs[2] >= 160 /\ bs[2] <= 191 /\ IsCont(bs[3]) /\ After(3)
         ELSE IF b = 237
              THEN n >= 3 /\ bs[2] >= 128 /\ bs[2] <= 159 /\ IsCont(bs[3]) /\ After(3)
         ELSE IF b >= 225 /\ b <= 239
              THEN n >= 3 /\ IsCont(bs[2]) /\ IsCont(bs[3]) /\ After(3)
         ELSE IF b = 240
              THEN n >= 4 /\ bs[2] >= 144 /\ bs[2] <= 191
                   /\ IsCont(bs[3]) /\ IsCont(bs[4]) /\ After(4)
         ELSE IF b >= 241 /\ b <= 243
              THEN n >= 4 /\ IsCont(bs[2]) /\ IsCont(bs[3]) /\ IsCont(bs[4]) /\ After(4)
         ELSE IF b = 244
              THEN n >= 4 /\ bs[2] >= 128 /\ bs[2] <= 143
                   /\ IsCont(bs[3]) /\ IsCont(bs[4]) /\ After(4)
         ELSE FALSE

\* urlencoding::decode(..).ok()
Decode(data) ==
    LET out == DecodeBinary(data) IN IF IsUtf8(out) THEN Some(out) ELSE None

\* The closure given to find_map: every `?` and the final .ok() yield None.
ExtractXsrf(cookie) ==
    LET str == ToStr(cookie) IN
    IF str = None THEN None
    ELSE LET stripped == StripPrefix(str[1], XSRF_COOKIE_PREFIX) IN
         IF stripped = None THEN None
         ELSE LET first == SplitNext(stripped[1], XSRF_COOKIE_SEPARATOR) IN
              IF first = None THEN None ELSE Decode(first[1])

\* A search that keeps the last Some the closure yields.
RECURSIVE FindMap_Last(_)
FindMap_Last(cookies) ==
    IF cookies = <<>> THEN None
    ELSE LET later == FindMap_Last(Tail(cookies)) IN
         IF later # None THEN later ELSE ExtractXsrf(Head(cookies))

\* Iterator::find_map: the first Some the closure yields, in iteration order.
RECURSIVE FindMap(_)
FindMap(cookies) ==
    IF cookies = <<>> THEN None
    ELSE LET found == ExtractXsrf(Head(cookies)) IN
         IF found # None THEN found ELSE FindMap(Tail(cookies))

-----------------------------------------------------------------------------
(* What the homepage may answer.                                           *)

Values(bytes, n) == UNION {[1..k -> bytes] : k \in 0..n}

\* '%', '3', ';'
BootBytes == {37, 51, 59}

\* Other cookies, XSRF cookies that are no ASCII text or do not decode, and
\* one whose value holds an escape.
OtherCookies ==
    { <<115, 61, 51>>,                                 \* s=3
      <<120, 115, 114, 102, 45, 116, 111, 107, 101, 110, 61, 51>>,  \* xsrf-token=3
      <<115, 61>> \o XSRF_COOKIE_PREFIX \o <<51>>,      \* s=XSRF-TOKEN=3
      XSRF_COOKIE_PREFIX \o <<51, 59, 233>>,            \* XSRF-TOKEN=3;<0xE9>
      XSRF_COOKIE_PREFIX \o <<195, 169>>,               \* XSRF-TOKEN=<U+00E9>
      XSRF_COOKIE_PREFIX \o <<37, 66, 51>>,            \* XSRF-TOKEN=%B3
      XSRF_COOKIE_PREFIX \o <<37, 51, 51>> }            \* XSRF-TOKEN=%33

BootCookies ==
    {XSRF_COOKIE_PREFIX \o v : v \in Values(BootBytes, MaxBody)} \cup OtherCookies

\* '%', '2', '3', '5', ';', 'B'
DecodeBytes == {37, 50, 51, 53, 59, 66}

DecodeCookies == {XSRF_COOKIE_PREFIX \o v : v \in Values(DecodeBytes, MaxValue)}

-----------------------------------------------------------------------------
(* Emailnator::new                                                         *)

Callers == {"c1", "c2"}

Init ==
    /\ phase = "uninitialized"
    /\ xsrf = <<>>
    /\ newResult = "pending"
    /\ setCookies = <<>>
    /\ gets = 0
    /\ pc = [c \in Callers |-> "idle"]
    /\ call = [c \in Callers |-> None]
    /\ req = [c \in Callers |-> None]
    /\ resp = [c \in Callers |-> None]
    /\ result = [c \in Callers |-> None]
    /\ sends = [c \in Callers |-> 0]

\* Client::builder()...build()? fails: new returns before any request.
NewBuildFails ==
    /\ phase = "uninitialized"
    /\ phase' = "failed"
    /\ newResult' = "Request"
    /\ UNCHANGED <<xsrf, setCookies, gets, callVars>>

\* The client is built and http.get(HOMEPAGE).send() is awaited.
NewSendGet ==
    /\ phase = "uninitialized"
    /\ phase' = "connecting"
    /\ gets' = gets + 1
    /\ UNCHANGED <<xsrf, newResult, setCookies, callVars>>

\* send().await? fails.
HomepageFails ==
    /\ phase = "connecting"
    /\ phase' = "failed"
    /\ newResult' = "Request"
    /\ UNCHANGED <<xsrf, setCookies, gets, callVars>>

\* The outcome of new once the response headers are known.
NewOutcome(cookies) ==
    LET found == FindMap(cookies) IN
    IF found = None
    THEN [phase |-> "failed", result |-> "RateLimited", xsrf |-> <<>>]
    ELSE [phase |-> "ready", result |-> "Ok", xsrf |-> found[1]]

\* send().await? yields a response with these Set-Cookie values: the rest
\* of new runs to its end.
HomepageResponds(cookies) ==
    /\ setCookies' = cookies
    /\ phase' = NewOutcome(cookies).phase
    /\ newResult' = NewOutcome(cookies).result
    /\ xsrf' = NewOutcome(cookies).xsrf
    /\ UNCHANGED <<gets, callVars>>

\* A response with up to MaxHeaders short Set-Cookie headers.
SeveralCookies ==
    /\ phase = "connecting"
    /\ \E k \in 0..MaxHeaders : \E cookies \in [1..k -> BootCookies] :
          HomepageResponds(cookies)

\* A response with one XSRF cookie of up to MaxValue bytes.
OneCookie ==
    /\ phase = "connecting"
    /\ \E cookie \in DecodeCookies : HomepageResponds(<<cookie>>)

BootNext ==
    \/ NewBuildFails
    \/ NewSendGet
    \/ HomepageFails
    \/ SeveralCookies
    \/ OneCookie

BootSpec == Init /\ [][BootNext]_vars

-----------------------------------------------------------------------------
(* Values of the three operations.                                         *)

Ok(v) == [ok |-> TRUE, v |-> v]
Err(kind) == [ok |-> FALSE, err |-> kind]

\* enum Error
ErrorKinds == {"Request", "Parse", "RateLimited", "NoEmailKinds", "ZeroCount"}

\* enum EmailKind with serde(rename_all = "camelCase")
EmailKindLabel ==
    [Domain |-> "domain", PlusGmail |-> "plusGmail",
     DotGmail |-> "dotGmail", GoogleMail |-> "googleMail"]

\* JSON values.
JStr(s) == [t |-> "string", v |-> s]
JNum(n) == [t |-> "number", v |-> n]
JArr(xs) == [t |-> "array", v |-> xs]
JObj(fields) == [t |-> "object", v |-> fields]

\* crate::url
GENERATE_EMAIL == "GENERATE_EMAIL"
INBOX == "INBOX"

TOO_MANY_REQUESTS == 429

\* HeaderValue::try_from(&String): no control byte but the tab, no DEL.
HeaderValueOk(value) ==
    \A i \in 1..Len(value) : (value[i] >= 32 /\ value[i] # 127) \/ value[i] = 9

\* A request whose token header is percent-decoded a second time.
Post_DecodedAgain(url, token, body) ==
    [method |-> "POST", url |-> url,
     headers |-> (CONTENT_TYPE :> APPLICATION_JSON)
                 @@ (X_XSRF_TOKEN :> DecodeBinary(token)),
     body |-> body]

\* The request the three operations build: .post(url).header(CONTENT_TYPE,
\* APPLICATION_JSON).header(X_XSRF_TOKEN, &self.xsrf).body(body)
Post(url, token, body) ==
    [method |-> "POST", url |-> url,
     headers |-> (CONTENT_TYPE :> APPLICATION_JSON) @@ (X_XSRF_TOKEN :> token),
     body |-> body]

\* struct GetEmail { email, #[serde(rename = "emailNo")] count }
GetEmail(kinds, count) ==
    JObj([email |-> JArr([i \in 1..Len(kinds) |-> JStr(EmailKindLabel[kinds[i]])]),
          emailNo |-> JNum(count)])

\* struct GetInbox { email }
GetInbox(email) == JObj([email |-> JStr(email)])

\* struct GetMessage { email, #[serde(rename = "messageID")] id }
GetMessage(email, id) == JObj([email |-> JStr(email), messageID |-> JStr(id)])

CreateEmailsRequest(token, kinds, count) ==
    Post(GENERATE_EMAIL, token, GetEmail(kinds, count))

FetchInboxRequest(token, email) == Post(INBOX, token, GetInbox(email))

ReadMessageRequest(token, email, id) == Post(INBOX, token, GetMessage(email, id))

\* The two checks in the opposite order.
ValidateCreate_CountFirst(kinds, count) ==
    IF count = 0 THEN Some("ZeroCount")
    ELSE IF kinds = <<>> THEN Some("NoEmailKinds")
    ELSE None

\* The count check left out.
ValidateCreate_NoCountCheck(kinds, count) ==
    IF kinds = <<>> THEN Some("NoEmailKinds") ELSE None

\* The two early returns of create_emails.
ValidateCreate(kinds, count) ==
    IF kinds = <<>> THEN Some("NoEmailKinds")
    ELSE IF count = 0 THEN Some("ZeroCount")
    ELSE None

\* A check for another status than 429.
IsRateLimited_ServerError(status) == status >= 500

\* A check that takes every error status for throttling.
IsRateLimited_AnyError(status) == status >= 400

\* response.status() == StatusCode::TOO_MANY_REQUESTS
IsRateLimited(status) == status = TOO_MANY_REQUESTS

IsString(j) == j.t = "string"
HasField(j, name) == j.t = "object" /\ name \in DOMAIN j.v

\* sonic_rs::from_slice::<GeneratedEmails>: struct GeneratedEmails { email: Vec<String> }
ParseGeneratedEmails(body) ==
    IF body.json = None THEN Err("Parse")
    ELSE LET j == body.json[1] IN
         IF /\ HasField(j, "email")
            /\ j.v.email.t = "array"
            /\ \A i \in 1..Len(j.v.email.v) : IsString(j.v.email.v[i])
         THEN Ok([i \in 1..Len(j.v.email.v) |-> j.v.email.v[i].v])
         ELSE Err("Parse")

\* struct MailHeader { #[serde(rename = "messageID")] id, from, subject }
IsMailHeader(j) ==
    /\ HasField(j, "messageID") /\ IsString(j.v.messageID)
    /\ HasField(j, "from") /\ IsString(j.v.from)
    /\ HasField(j, "subject") /\ IsString(j.v.subject)

MailHeader(j) == [id |-> j.v.messageID.v, from |-> j.v.from.v, subject |-> j.v.subject.v]

\* sonic_rs::from_slice::<Inbox>: struct Inbox { #[serde(rename = "messageData")] message }
ParseInbox(body) ==
    IF body.json = None THEN Err("Parse")
    ELSE LET j == body.json[1] IN
         IF /\ HasField(j, "messageData")
            /\ j.v.messageData.t = "array"
            /\ \A i \in 1..Len(j.v.messageData.v) : IsMailHeader(j.v.messageData.v[i])
         THEN Ok([message |-> [i \in 1..Len(j.v.messageData.v) |->
                                  MailHeader(j.v.messageData.v[i])]])
         ELSE Err("Parse")

\* Response::text(): the body as text; bytes that are no UTF-8 are replaced.
Text(body) == [of |-> body.bytes, lossy |-> ~body.utf8]

\* What each operation returns once the whole body has arrived.
CreateEmailsDecode(body) == ParseGeneratedEmails(body)
FetchInboxDecode(body) == ParseInbox(body)
ReadMessageDecode(body) == Ok(Text(body))

-----------------------------------------------------------------------------
(* Inputs: arguments of the callers and answers of the service.            *)

KindLists == {<<>>, <<"Domain">>, <<"PlusGmail", "GoogleMail">>}
Counts == 0..MaxCount
Emails == {"a@x.com"}
MessageIds == {"1"}
Statuses == {200, 404, 429, 500}

Bodies ==
    { \* {"email":["a@x.com","b@x.com"]}
      [bytes |-> "emails", utf8 |-> TRUE,
       json |-> Some(JObj([email |-> JArr(<<JStr("a@x.com"), JStr("b@x.com")>>)]))],
      \* {"messageData":[{"messageID":"1","from":"s@x","subject":"hi"}]}
      [bytes |-> "inbox", utf8 |-> TRUE,
       json |-> Some(JObj([messageData |-> JArr(<<JObj([messageID |-> JStr("1"),
                              from |-> JStr("s@x"), subject |-> JStr("hi")])>>)]))],
      \* {"email":"a@x.com","messageData":[{"messageID":"1","from":"s@x"}]}
      [bytes |-> "misshapen", utf8 |-> TRUE,
       json |-> Some(JObj([email |-> JStr("a@x.com"),
                           messageData |-> JArr(<<JObj([messageID |-> JStr("1"),
                              from |-> JStr("s@x")])>>)]))],
      \* {"email":[],"messageData":[],"error":1}
      [bytes |-> "both", utf8 |-> TRUE,
       json |-> Some(JObj([email |-> JArr(<<>>), messageData |-> JArr(<<>>),
                           error |-> JNum(1)]))],
      \* <html>body</html>
      [bytes |-> "html", utf8 |-> TRUE, json |-> None],
      \* bytes that are no UTF-8
      [bytes |-> "binary", utf8 |-> FALSE, json |-> None] }

\* What the homepage answers in the sessions the callers use.
SessionCookies ==
    { \* s=3, XSRF-TOKEN=a%3D;p   (token "a=")
      << <<115, 61, 51>>, XSRF_COOKIE_PREFIX \o <<97, 37, 51, 68, 59, 112>> >>,
      \* XSRF-TOKEN=%2541          (token "%41")
      << XSRF_COOKIE_PREFIX \o <<37, 50, 53, 52, 49>> >>,
      \* XSRF-TOKEN=%0A            (token: a line feed)
      << XSRF_COOKIE_PREFIX \o <<37, 48, 65>> >>,
      \* XSRF-TOKEN=               (token "")
      << XSRF_COOKIE_PREFIX >>,
      \* s=3                       (no XSRF cookie)
      << <<115, 61, 51>> >> }

SessionResponds ==
    /\ phase = "connecting"
    /\ \E cookies \in SessionCookies : HomepageResponds(cookies)

-----------------------------------------------------------------------------
(* create_emails, fetch_inbox, read_message                                *)

CanCall(c) == phase = "ready" /\ pc[c] \in {"idle", "done", "cancelled"}

\* An invocation returns before its first await.
Return(c, invocation, value) ==
    /\ pc' = [pc EXCEPT ![c] = "done"]
    /\ call' = [call EXCEPT ![c] = Some(invocation)]
    /\ req' = [req EXCEPT ![c] = None]
    /\ resp' = [resp EXCEPT ![c] = None]
    /\ result' = [result EXCEPT ![c] = Some(value)]
    /\ sends' = [sends EXCEPT ![c] = 0]

\* .send(): a request whose header value was refused never reaches the
\* transport and send().await? returns the builder's error.
Send(c, invocation, request) ==
    IF HeaderValueOk(request.headers[X_XSRF_TOKEN])
    THEN /\ pc' = [pc EXCEPT ![c] = "sending"]
         /\ call' = [call EXCEPT ![c] = Some(invocation)]
         /\ req' = [req EXCEPT ![c] = Some(request)]
         /\ resp' = [resp EXCEPT ![c] = None]
         /\ result' = [result EXCEPT ![c] = None]
         /\ sends' = [sends EXCEPT ![c] = 1]
    ELSE Return(c, invocation, Err("Request"))

CreateEmails(c) ==
    /\ CanCall(c)
    /\ \E kinds \in KindLists, count \in Counts :
          LET invocation == [op |-> "create_emails", kinds |-> kinds, count |-> count]
              invalid == ValidateCreate(kinds, count)
          IN  IF invalid # None
              THEN Return(c, invocation, Err(invalid[1]))
              ELSE Send(c, invocation, CreateEmailsRequest(xsrf, kinds, count))
    /\ UNCHANGED bootVars

FetchInbox(c) ==
    /\ CanCall(c)
    /\ \E email \in Emails :
          Send(c, [op |-> "fetch_inbox", email |-> email], FetchInboxRequest(xsrf, email))
    /\ UNCHANGED bootVars

ReadMessage(c) ==
    /\ CanCall(c)
    /\ \E email \in Emails, id \in MessageIds :
          Send(c, [op |-> "read_message", email |-> email, id |-> id],
               ReadMessageRequest(xsrf, email, id))
    /\ UNCHANGED bootVars

\* A failed send that is tried a second time.
SendFails_RetryOnce(c) ==
    /\ pc[c] = "sending"
    /\ IF sends[c] < 2
       THEN /\ sends' = [sends EXCEPT ![c] = sends[c] + 1]
            /\ UNCHANGED <<pc, result>>
       ELSE /\ pc' = [pc EXCEPT ![c] = "done"]
            /\ result' = [result EXCEPT ![c] = Some(Err("Request"))]
            /\ UNCHANGED sends
    /\ UNCHANGED <<bootVars, call, req, resp>>

\* send().await? fails: the invocation returns the transport's error.
SendFails(c) ==
    /\ pc[c] = "sending"
    /\ pc' = [pc EXCEPT ![c] = "done"]
    /\ result' = [result EXCEPT ![c] = Some(Err("Request"))]
    /\ UNCHANGED <<bootVars, call, req, resp, sends>>

\* send().await? yields the response head: the status is looked at first.
SendResponds(c) ==
    /\ pc[c] = "sending"
    /\ \E status \in Statuses :
          /\ resp' = [resp EXCEPT ![c] = Some([status |-> status])]
          /\ IF IsRateLimited(status)
             THEN /\ pc' = [pc EXCEPT ![c] = "done"]
                  /\ result' = [result EXCEPT ![c] = Some(Err("RateLimited"))]
             ELSE /\ pc' = [pc EXCEPT ![c] = "reading"]
                  /\ UNCHANGED result
    /\ UNCHANGED <<bootVars, call, req, sends>>

\* response.bytes().await? / response.text().await? fails.
BodyFails(c) ==
    /\ pc[c] = "reading"
    /\ pc' = [pc EXCEPT ![c] = "done"]
    /\ result' = [result EXCEPT ![c] = Some(Err("Request"))]
    /\ UNCHANGED <<bootVars, call, req, resp, sends>>

Decoded(op, body) ==
    IF op = "create_emails" THEN CreateEmailsDecode(body)
    ELSE IF op = "fetch_inbox" THEN FetchInboxDecode(body)
    ELSE ReadMessageDecode(body)

\* The body arrives whole and the operation decodes it and returns.
BodyArrives(c) ==
    /\ pc[c] = "reading"
    /\ \E body \in Bodies :
          /\ resp' = [resp EXCEPT ![c] = Some([status |-> resp[c][1].status, body |-> body])]
          /\ result' = [result EXCEPT ![c] = Some(Decoded(call[c][1].op, body))]
    /\ pc' = [pc EXCEPT ![c] = "done"]
    /\ UNCHANGED <<bootVars, call, req, sends>>

\* A drop that aborts every request in flight on the shared client.
Dropped_AbortsAll(c) ==
    [d \in Callers |-> IF pc[d] \in {"sending", "reading"} THEN "cancelled" ELSE pc[d]]

\* What dropping the future of caller c does to the callers' positions.
Dropped(c) == [pc EXCEPT ![c] = "cancelled"]

\* The caller drops the future while it waits for the transport.
Cancel(c) ==
    /\ pc[c] \in {"sending", "reading"}
    /\ pc' = Dropped(c)
    /\ UNCHANGED <<bootVars, call, req, resp, result, sends>>

Next ==
    \/ NewBuildFails
    \/ NewSendGet
    \/ HomepageFails
    \/ SessionResponds
    \/ \E c \in Callers : CreateEmails(c)
    \/ \E c \in Callers : FetchInbox(c)
    \/ \E c \in Callers : ReadMessage(c)
    \/ \E c \in Callers : SendFails(c)
    \/ \E c \in Callers : SendResponds(c)
    \/ \E c \in Callers : BodyFails(c)
    \/ \E c \in Callers : BodyArrives(c)
    \/ \E c \in Callers : Cancel(c)

Spec == Init /\ [][Next]_vars

\* The transport answers or fails every request it was handed.
Fairness ==
    \A c \in Callers :
        /\ WF_vars(SendFails(c) \/ SendResponds(c))
        /\ WF_vars(BodyFails(c) \/ BodyArrives(c))

FairSpec == Spec /\ Fairness /\ WF_vars(HomepageFails \/ SessionResponds)

-----------------------------------------------------------------------------
(* Vocabulary of the properties.                                           *)

\* The header value starts with the cookie name XSRF-TOKEN=.
HasXsrfName(h) ==
    /\ Len(h) >= Len(XSRF_COOKIE_PREFIX)
    /\ \A i \in 1..Len(XSRF_COOKIE_PREFIX) : h[i] = XSRF_COOKIE_PREFIX[i]

\* The bytes between the cookie name and the first ';' (or the end).
RECURSIVE UpToSeparator(_)
UpToSeparator(s) ==
    IF s = <<>> \/ Head(s) = 59 THEN <<>> ELSE <<Head(s)>> \o UpToSeparator(Tail(s))

RawValue(h) == UpToSeparator(SubSeq(h, Len(XSRF_COOKIE_PREFIX) + 1, Len(h)))

\* The header has the cookie name and its value percent-decodes to UTF-8.
NamedAndDecodable(h) == HasXsrfName(h) /\ IsUtf8(DecodeBinary(RawValue(h)))

\* Every byte of the header value is visible ASCII or a tab.
IsAsciiText(s) == \A i \in 1..Len(s) : (s[i] >= 32 /\ s[i] <= 126) \/ s[i] = 9

Responded == newResult \in {"Ok", "RateLimited"}

\* Index of the first header satisfying Q, 0 if there is none.
FirstIndex(hs, Q(_)) ==
    IF \E i \in 1..Len(hs) : Q(hs[i])
    THEN CHOOSE i \in 1..Len(hs) : Q(hs[i]) /\ \A j \in 1..(i - 1) : ~Q(hs[j])
    ELSE 0

\* Bootstrap took the first header satisfying Q, or failed with RateLimited.
TakesFirst(Q(_)) ==
    Responded =>
        LET i == FirstIndex(setCookies, Q) IN
        IF i = 0
        THEN phase = "failed" /\ newResult = "RateLimited"
        ELSE /\ phase = "ready" /\ newResult = "Ok"
             /\ xsrf = DecodeBinary(RawValue(setCookies[i]))

\* A '%' followed by two hex digits occurs in s.
HasEscape(s) ==
    \E i \in 1..Len(s) :
        /\ s[i] = 37 /\ i + 2 <= Len(s)
        /\ FromHexDigit(s[i + 1]) # -1 /\ FromHexDigit(s[i + 2]) # -1

HexChar(n) == IF n < 10 THEN 48 + n ELSE 55 + n

IsUnreserved(b) ==
    \/ (b >= 48 /\ b <= 57) \/ (b >= 65 /\ b <= 90) \/ (b >= 97 /\ b <= 122)
    \/ b \in {45, 46, 95, 126}

\* Percent-encoding of an ASCII string.
RECURSIVE PercentEncode(_)
PercentEncode(s) ==
    IF s = <<>> THEN <<>>
    ELSE (IF IsUnreserved(Head(s)) THEN <<Head(s)>>
          ELSE <<37, HexChar(Head(s) \div 16), HexChar(Head(s) % 16)>>)
         \o PercentEncode(Tail(s))

\* '"', '%', '+', '3', ';'
PlainBytes == {34, 37, 43, 51, 59}

-----------------------------------------------------------------------------
(* C1 (as stated): for every list of Set-Cookie values of the homepage      *)
(* response, if some header starts with XSRF-TOKEN= and its value up to    *)
(* the first ';' percent-decodes, bootstrap succeeds with the decoded      *)
(* value of the first such header; otherwise it fails with RateLimited.    *)
C1_FirstNamedDecodable == TakesFirst(NamedAndDecodable)

\* A header qualifies if, moreover, it is ASCII text as a whole.
Qualifies(h) == IsAsciiText(h) /\ NamedAndDecodable(h)

(* C1 (amended): as C1, where a header qualifies only if in addition every *)
(* byte of the whole header value is visible ASCII or a tab; headers with   *)
(* any other byte are skipped like the headers that fail another step.     *)
C1_FirstQualifying == TakesFirst(Qualifies)

\* Two headers: the first has the cookie name but does not decode and is
\* skipped, the second qualifies and its escape was decoded.
C1_Witness ==
    /\ phase = "ready" /\ Len(setCookies) = 2
    /\ HasXsrfName(setCookies[1]) /\ ~Qualifies(setCookies[1])
    /\ Qualifies(setCookies[2])
    /\ xsrf # RawValue(setCookies[2])

-----------------------------------------------------------------------------
(* C6: whenever a session exists its xsrf token is non-empty and is the    *)
(* URL-decoded value of an XSRF cookie of the homepage response.           *)
C6_TokenNonEmptyDecoded ==
    phase = "ready" =>
        /\ xsrf # <<>>
        /\ \E i \in 1..Len(setCookies) :
              HasXsrfName(setCookies[i]) /\ xsrf = DecodeBinary(RawValue(setCookies[i]))

-----------------------------------------------------------------------------
\* The cookie logic applied to the ASCII header
\* XSRF-TOKEN=<percent-encoding of t><attributes> yields t.
RoundTrip ==
    (/\ Responded /\ Len(setCookies) = 1
     /\ HasXsrfName(setCookies[1]) /\ IsAsciiText(setCookies[1])) =>
        \A t \in Values(PlainBytes, 2) :
            RawValue(setCookies[1]) = PercentEncode(t) =>
                phase = "ready" /\ xsrf = t

\* Applying the cookie logic again to the cookie carrying the token.
Reapplied == ExtractXsrf(XSRF_COOKIE_PREFIX \o xsrf)

(* C9 (as stated): the cookie logic yields the decoded string of a         *)
(* percent-encoded value, and applied again to the decoded string it       *)
(* yields that string whenever the string has no percent escape left.      *)
C9_Idempotent ==
    /\ RoundTrip
    /\ (phase = "ready" /\ ~HasEscape(xsrf)) => Reapplied = Some(xsrf)

(* C9 (amended): the cookie logic yields the decoded string of a           *)
(* percent-encoded value; the decoding step applied again to a decoded     *)
(* string without percent escapes returns it unchanged, and so does the    *)
(* whole cookie logic provided the string also has no ';' and consists of   *)
(* visible ASCII or tabs.                                                  *)
C9_IdempotentOnPlainText ==
    /\ RoundTrip
    /\ (phase = "ready" /\ ~HasEscape(xsrf)) =>
          /\ Decode(xsrf) = Some(xsrf)
          /\ (IsAsciiText(xsrf) /\ \A i \in 1..Len(xsrf) : xsrf[i] # 59)
                => Reapplied = Some(xsrf)

\* A value with an escape for '%' was decoded once, to a token that still
\* holds a '%' but no escape, and the logic applied again returns it.
C9_Witness ==
    /\ phase = "ready" /\ Len(setCookies) = 1
    /\ RawValue(setCookies[1]) = <<51, 37, 50, 53>>
    /\ xsrf = <<51, 37>>
    /\ Reapplied = Some(xsrf)

-----------------------------------------------------------------------------
(* Vocabulary of the properties about the three operations.                *)

Op(c) == call[c][1].op
Status(c) == resp[c][1].status
Answered(c) == resp[c] # None
BodyRead(c) == Answered(c) /\ "body" \in DOMAIN resp[c][1]
Failed(c, kind) == result[c] = Some(Err(kind))
IsCreate(c) == call[c] # None /\ Op(c) = "create_emails"
InFlight(c) == pc[c] \in {"sending", "reading"}

-----------------------------------------------------------------------------
(* C2: whenever the response to the POST of create_emails, fetch_inbox or  *)
(* read_message has status 429, the operation has failed with RateLimited  *)
(* and the body of that response was never read.                           *)
C2_RateLimitedBeforeBody ==
    \A c \in Callers :
        (Answered(c) /\ Status(c) = 429) =>
            /\ pc[c] = "done"
            /\ Failed(c, "RateLimited")
            /\ ~BodyRead(c)

\* Two operations were answered 429 at the same time.
C2_Witness ==
    /\ Answered("c1") /\ Status("c1") = 429 /\ Op("c1") = "create_emails"
    /\ Answered("c2") /\ Status("c2") = 429 /\ Op("c2") = "read_message"

-----------------------------------------------------------------------------
(* C3: create_emails with no kinds fails with NoEmailKinds for every       *)
(* count, zero included, and hands nothing to the transport.               *)
C3_NoEmailKinds ==
    \A c \in Callers :
        (IsCreate(c) /\ call[c][1].kinds = <<>>) =>
            /\ pc[c] = "done"
            /\ Failed(c, "NoEmailKinds")
            /\ sends[c] = 0 /\ req[c] = None /\ resp[c] = None

\* No kinds and a count of zero.
C3_Witness ==
    /\ IsCreate("c1") /\ call["c1"][1].kinds = <<>> /\ call["c1"][1].count = 0
    /\ Failed("c1", "NoEmailKinds")

-----------------------------------------------------------------------------
(* C4: create_emails with some kinds and count 0 fails with ZeroCount and  *)
(* hands nothing to the transport; and every POST to the generation        *)
(* endpoint comes from a call with some kinds and a count above zero.      *)
C4_ZeroCount ==
    \A c \in Callers :
        /\ (IsCreate(c) /\ call[c][1].kinds # <<>> /\ call[c][1].count = 0) =>
              /\ pc[c] = "done"
              /\ Failed(c, "ZeroCount")
              /\ sends[c] = 0 /\ req[c] = None /\ resp[c] = None
        /\ (req[c] # None /\ req[c][1].url = GENERATE_EMAIL) =>
              /\ IsCreate(c)
              /\ call[c][1].kinds # <<>> /\ call[c][1].count > 0
              /\ Len(req[c][1].body.v.email.v) > 0
              /\ req[c][1].body.v.emailNo.v > 0

\* One caller was refused for its zero count while the POST of the other
\* is with the generation endpoint.
C4_Witness ==
    /\ IsCreate("c1") /\ call["c1"][1].count = 0 /\ Failed("c1", "ZeroCount")
    /\ req["c2"] # None /\ req["c2"][1].url = GENERATE_EMAIL /\ pc["c2"] = "sending"

-----------------------------------------------------------------------------
\* Every POST handed to the transport carries the two headers, the token
\* being the one decoded from the homepage response.
PostsCarryToken ==
    \A c \in Callers :
        req[c] # None =>
            /\ phase = "ready"
            /\ req[c][1].method = "POST"
            /\ req[c][1].headers[CONTENT_TYPE] = "application/json"
            /\ req[c][1].headers["X-XSRF-TOKEN"] = xsrf
            /\ Some(xsrf) = FindMap(setCookies)

\* Once ready, the client stays ready with the same token.
TokenKept == (phase = "ready") => (phase' = "ready" /\ xsrf' = xsrf)

(* C5: after a successful bootstrap no step changes the token or leaves    *)
(* the ready state, and every POST carries Content-Type application/json   *)
(* and X-XSRF-TOKEN with exactly the token decoded at bootstrap.           *)
C5_TokenImmutable == []PostsCarryToken /\ [][TokenKept]_vars

\* The token "%41", still holding an escape, on a POST in flight while the
\* other caller's operation has failed.
C5_Witness ==
    /\ xsrf = <<37, 52, 49>>
    /\ pc["c1"] = "reading" /\ req["c1"][1].headers["X-XSRF-TOKEN"] = <<37, 52, 49>>
    /\ Failed("c2", "Parse")

-----------------------------------------------------------------------------
\* What an invocation returns, from its own arguments, the token and the
\* answer to its own request alone.
Outcome(c) ==
    LET inv == call[c][1] IN
    IF inv.op = "create_emails" /\ inv.kinds = <<>> THEN Err("NoEmailKinds")
    ELSE IF inv.op = "create_emails" /\ inv.count = 0 THEN Err("ZeroCount")
    ELSE IF ~Answered(c) THEN Err("Request")
    ELSE IF Status(c) = 429 THEN Err("RateLimited")
    ELSE IF ~BodyRead(c) THEN Err("Request")
    ELSE LET body == resp[c][1].body IN
         IF inv.op = "read_message" THEN Ok(Text(body))
         ELSE IF body.json = None THEN Err("Parse")
         ELSE IF inv.op = "create_emails"
              THEN (IF /\ "email" \in DOMAIN body.json[1].v
                       /\ body.json[1].v.email.t = "array"
                    THEN Ok([i \in 1..Len(body.json[1].v.email.v) |->
                                body.json[1].v.email.v[i].v])
                    ELSE Err("Parse"))
         ELSE (IF /\ "messageData" \in DOMAIN body.json[1].v
                  /\ \A i \in 1..Len(body.json[1].v.messageData.v) :
                        {"messageID", "from", "subject"}
                            \subseteq DOMAIN body.json[1].v.messageData.v[i].v
               THEN Ok([message |->
                          [i \in 1..Len(body.json[1].v.messageData.v) |->
                             LET m == body.json[1].v.messageData.v[i].v IN
                             [id |-> m.messageID.v, from |-> m.from.v,
                              subject |-> m.subject.v]]])
               ELSE Err("Parse"))

OwnOutcome ==
    \A c \in Callers :
        /\ pc[c] = "done" => result[c] = Some(Outcome(c))
        /\ req[c] # None => req[c][1].headers[X_XSRF_TOKEN] = xsrf

Touched(c) ==
    \/ pc'[c] # pc[c] \/ call'[c] # call[c] \/ req'[c] # req[c]
    \/ resp'[c] # resp[c] \/ result'[c] # result[c] \/ sends'[c] # sends[c]

\* A step of one caller, a cancellation included, leaves the token and
\* everything of the other callers as it was.
NoInterference ==
    \A c \in Callers :
        Touched(c) =>
            /\ xsrf' = xsrf /\ phase' = phase
            /\ \A d \in Callers \ {c} : ~Touched(d)

(* C7: with several callers running the three operations on one client,    *)
(* under every interleaving each call sends the same unchanged token, its  *)
(* result is the one its own arguments and the answer to its own request   *)
(* give, and a step of one call, its cancellation included, changes        *)
(* neither the token nor anything of the other calls.                      *)
C7_CallsIndependent == []OwnOutcome /\ [][NoInterference]_vars

\* One call was cancelled after its response head arrived while the other,
\* answered differently, completed with a value.
C7_Witness ==
    /\ pc["c1"] = "cancelled" /\ Answered("c1") /\ Status("c1") = 500
    /\ pc["c2"] = "done" /\ BodyRead("c2") /\ Status("c2") = 200
    /\ result["c2"][1].ok

-----------------------------------------------------------------------------
\* At most one request per invocation, and a finished invocation holds a
\* value or one of the five errors.
AtMostOneRequest ==
    /\ gets <= 1
    /\ newResult \in {"pending", "Ok"} \cup ErrorKinds
    /\ (phase = "failed") <=> (newResult \in ErrorKinds)
    /\ \A c \in Callers :
          /\ sends[c] <= 1
          /\ (pc[c] = "done") <=> (result[c] # None)
          /\ result[c] # None =>
                \/ result[c][1].ok
                \/ (~result[c][1].ok /\ result[c][1].err \in ErrorKinds)

\* A failure ends the invocation: nothing more is sent and the error stays
\* until the caller starts another invocation.
FailureIsFinal ==
    \A c \in Callers :
        (result[c] # None /\ ~result[c][1].ok) =>
            \/ (result'[c] = result[c] /\ sends'[c] = sends[c] /\ pc'[c] = "done")
            \/ call'[c] # call[c] \/ pc'[c] = "sending"

Terminates ==
    /\ \A c \in Callers : InFlight(c) ~> (pc[c] \in {"done", "cancelled"})
    /\ (phase = "connecting") ~> (phase \in {"ready", "failed"})

(* C8: no operation retries: every invocation of new, create_emails,       *)
(* fetch_inbox or read_message hands at most one request to the transport, *)
(* a failure ends it at once with that error, and once the transport       *)
(* answers or fails the invocation ends with a value or one of the five    *)
(* error kinds.                                                            *)
C8_NoRetry == []AtMostOneRequest /\ [][FailureIsFinal]_vars /\ Terminates

\* A transport failure and a decode failure, each after one request.
C8_Witness ==
    /\ Failed("c1", "Request") /\ sends["c1"] = 1 /\ ~Answered("c1")
    /\ Failed("c2", "Parse") /\ sends["c2"] = 1

-----------------------------------------------------------------------------
\* The body has the JSON shape create_emails expects.
HasEmailsShape(body) ==
    /\ body.json # None
    /\ body.json[1].t = "object" /\ "email" \in DOMAIN body.json[1].v
    /\ body.json[1].v.email.t = "array"
    /\ \A i \in 1..Len(body.json[1].v.email.v) : body.json[1].v.email.v[i].t = "string"

\* The body has the JSON shape fetch_inbox expects.
HasInboxShape(body) ==
    /\ body.json # None
    /\ body.json[1].t = "object" /\ "messageData" \in DOMAIN body.json[1].v
    /\ body.json[1].v.messageData.t = "array"
    /\ \A i \in 1..Len(body.json[1].v.messageData.v) :
          LET m == body.json[1].v.messageData.v[i] IN
          /\ m.t = "object"
          /\ \A f \in {"messageID", "from", "subject"} :
                f \in DOMAIN m.v /\ m.v[f].t = "string"

(* C10: 429 is the only status that fails an operation: for any other      *)
(* status the operation never fails with RateLimited, and once the body    *)
(* has arrived create_emails and fetch_inbox succeed exactly if the body   *)
(* has the expected JSON shape and fail with the decode error otherwise,   *)
(* while read_message succeeds with the response text.                     *)
C10_OnlyStatus429 ==
    \A c \in Callers :
        (Answered(c) /\ Status(c) # 429) =>
            /\ ~Failed(c, "RateLimited")
            /\ pc[c] \in {"reading", "done", "cancelled"}
            /\ BodyRead(c) =>
                  LET body == resp[c][1].body IN
                  /\ pc[c] = "done"
                  /\ Op(c) = "create_emails" =>
                        /\ result[c][1].ok <=> HasEmailsShape(body)
                        /\ ~result[c][1].ok => Failed(c, "Parse")
                  /\ Op(c) = "fetch_inbox" =>
                        /\ result[c][1].ok <=> HasInboxShape(body)
                        /\ ~result[c][1].ok => Failed(c, "Parse")
                  /\ Op(c) = "read_message" =>
                        result[c] = Some(Ok([of |-> body.bytes, lossy |-> ~body.utf8]))

\* A 500 whose body has the expected shape gives a value, and a 404 gives
\* read_message its text.
C10_Witness ==
    /\ BodyRead("c1") /\ Status("c1") = 500 /\ Op("c1") = "create_emails"
    /\ result["c1"][1].ok
    /\ BodyRead("c2") /\ Status("c2") = 404 /\ Op("c2") = "read_message"
    /\ result["c2"] = Some(Ok([of |-> "html", lossy |-> FALSE]))

====
